---- MODULE Spec2Model ----
(***************************************************************************)
(* Model of the adaptive tree form of src/main.py: AdaptiveTreeNode (the   *)
(* recursive node built from a JSON tree), the user fields,                 *)
(* AdaptiveTreeForm (the owner of the root node) and MainWindow (the owner  *)
(* of the form and of the copy button).  root, selected, combo, shown and   *)
(* text are the state of the form MainWindow.adaptive_form refers to.       *)
(*                                                                         *)
(* Python strings that end up in data() are sequences of one-character     *)
(* strings, so that split and join are computed and not assumed.  Python   *)
(* None is the empty sequence and an object x that may be None is <<x>>.   *)
(* A node of the built tree is named by its path: the sequence of indices  *)
(* into the "subwidgets" lists that leads to the fragment it was built     *)
(* from.  The root node is named by the file its tree was read from.       *)
(***************************************************************************)
EXTENDS Integers, Sequences, FiniteSets, TLC

VARIABLES root, selected, combo, shown, text, button, last_call

vars == <<root, selected, combo, shown, text, button, last_call>>

-----------------------------------------------------------------------------
(* Bounds and inputs *)

\* The most characters the user has typed into the fields of one form.
MaxChars == 2

\* The characters the user types.
RawChars == {"4", "\n"}

None == <<>>
Some(x) == <<x>>

\* Outcome of a call: a returned value (None or a string) or a raised exception.
Return(v) == [exc |-> "", val |-> v]
Raise(e) == [exc |-> e, val |-> None]

-----------------------------------------------------------------------------
(* Strings *)

\* sep.join(parts)
RECURSIVE Join(_, _)
Join(sep, parts) ==
    IF parts = <<>> THEN <<>>
    ELSE IF Len(parts) = 1 THEN parts[1]
    ELSE parts[1] \o sep \o Join(sep, Tail(parts))

\* s.split(c) for a one-character separator c
RECURSIVE Split(_, _)
Split(s, c) ==
    IF \A i \in DOMAIN s : s[i] # c THEN <<s>>
    ELSE LET i == CHOOSE k \in DOMAIN s : s[k] = c /\ \A j \in 1..(k-1) : s[j] # c
         IN  <<SubSeq(s, 1, i-1)>> \o Split(SubSeq(s, i+1, Len(s)), c)

-----------------------------------------------------------------------------
(* Python dict: a sequence of <<key, value>> pairs in insertion order *)

DictHas(d, k) == \E j \in DOMAIN d : d[j][1] = k

DictGet(d, k) == d[CHOOSE j \in DOMAIN d : d[j][1] = k][2]

\* d[k] = v
DictSet(d, k, v) ==
    IF DictHas(d, k)
    THEN [j \in DOMAIN d |-> IF d[j][1] = k THEN <<k, v>> ELSE d[j]]
    ELSE Append(d, <<k, v>>)

DictKeys(d) == [j \in DOMAIN d |-> d[j][1]]

DictValues(d) == [j \in DOMAIN d |-> d[j][2]]

-----------------------------------------------------------------------------
(* User fields *)

LineEditField_data(raw) == raw

\* Mutant: empty lines are left out of the joined value.
MultipleTextEdit_data_SkipsEmpty(raw) ==
    Join(<<",", " ">>, SelectSeq(Split(raw, "\n"), LAMBDA line : line # <<>>))

MultipleTextEdit_data(raw) == Join(<<",", " ">>, Split(raw, "\n"))

\* Mapping a field info into its corresponding editor
SUPPORTED_USER_FIELD_TYPES ==
    [k \in {"LineEdit", "MultipleTextEdit", "MultipleFilesEdit"} |->
        IF k = "LineEdit" THEN "LineEditField" ELSE "MultipleTextEdit"]

\* Mutant: a kind that is not registered falls back to the line edit.
FieldClass_Fallback(kind) ==
    IF kind \in DOMAIN SUPPORTED_USER_FIELD_TYPES
    THEN Some(SUPPORTED_USER_FIELD_TYPES[kind])
    ELSE Some("LineEditField")

\* SUPPORTED_USER_FIELD_TYPES[kind]: the class, or None for a KeyError
FieldClass(kind) ==
    IF kind \in DOMAIN SUPPORTED_USER_FIELD_TYPES
    THEN Some(SUPPORTED_USER_FIELD_TYPES[kind])
    ELSE None

UserField_data(class, raw) ==
    IF class = "LineEditField" THEN LineEditField_data(raw)
    ELSE MultipleTextEdit_data(raw)

-----------------------------------------------------------------------------
(* The JSON tree a node is built from *)

Items(tree, key) == IF key \in DOMAIN tree THEN tree[key] ELSE <<>>

\* The fragment the node at path p was built from.
RECURSIVE FragmentAt(_, _)
FragmentAt(tree, p) ==
    IF p = <<>> THEN tree
    ELSE FragmentAt(tree.subwidgets[Head(p)], Tail(p))

\* Every node AdaptiveTreeNode(parent, tree) constructs, itself included.
RECURSIVE NodePaths(_)
NodePaths(tree) ==
    {<<>>} \cup
    UNION {{<<i>> \o q : q \in NodePaths(tree.subwidgets[i])} :
               i \in DOMAIN Items(tree, "subwidgets")}

\* The exception AdaptiveTreeNode(parent, tree) ends in, "" when it returns.
RECURSIVE BuildError(_)
BuildError(tree) ==
    IF "name" \notin DOMAIN tree THEN "KeyError"
    ELSE LET subs  == Items(tree, "subwidgets")
             props == Items(tree, "properties")
         IN  IF \E i \in DOMAIN subs :
                    \/ BuildError(subs[i]) # ""
                    \/ "name" \notin DOMAIN subs[i]
             THEN "KeyError"
             ELSE IF \E i \in DOMAIN props :
                        \/ "field" \notin DOMAIN props[i]
                        \/ FieldClass(props[i].field) = None
                        \/ "name" \notin DOMAIN props[i]
             THEN "KeyError"
             ELSE ""

\* self._subwidgets after the loop over tree["subwidgets"]: name -> child path
RECURSIVE SubwidgetsUpTo(_, _, _)
SubwidgetsUpTo(tree, p, n) ==
    IF n = 0 THEN <<>>
    ELSE DictSet(SubwidgetsUpTo(tree, p, n-1),
                 FragmentAt(tree, p).subwidgets[n].name, p \o <<n>>)

Subwidgets(tree, p) ==
    SubwidgetsUpTo(tree, p, Len(Items(FragmentAt(tree, p), "subwidgets")))

\* self._properties_widgets after the loop over tree["properties"]:
\* name -> class of the user field
RECURSIVE PropertiesUpTo(_, _, _)
PropertiesUpTo(tree, p, n) ==
    IF n = 0 THEN <<>>
    ELSE LET info == FragmentAt(tree, p).properties[n]
         IN  DictSet(PropertiesUpTo(tree, p, n-1),
                     info.name, FieldClass(info.field)[1])

PropertiesWidgets(tree, p) ==
    PropertiesUpTo(tree, p, Len(Items(FragmentAt(tree, p), "properties")))

\* The user fields of the whole tree, each named by its node and its key.
FieldIds(tree) ==
    UNION {{<<p, PropertiesWidgets(tree, p)[j][1]>> :
                j \in DOMAIN PropertiesWidgets(tree, p)} : p \in NodePaths(tree)}

-----------------------------------------------------------------------------
(* The model files the form is asked to load *)

Issue == <<"I", "s", "s", "u", "e">>
InClass == <<"I", "n", " ", "c", "l", "a", "s", "s">>
DoesNotExist == <<"?">>

\* The example of the docstring of AdaptiveTreeNode.__init__, cut to its
\* first property: the top fragment has no "name".
DocExample ==
    [subwidgets |-> <<
        [name |-> Issue,
         properties |-> <<[name |-> "n", field |-> "LineEdit"]>>]>>]

\* The same with an empty name on the top fragment, a second field and a
\* nested choice.
Nested ==
    [name |-> <<>>,
     subwidgets |-> <<
        [name |-> Issue,
         properties |-> <<[name |-> "n", field |-> "LineEdit"],
                          [name |-> "f", field |-> "MultipleFilesEdit"]>>,
         subwidgets |-> <<
            [name |-> InClass,
             properties |-> <<[name |-> "c", field |-> "MultipleTextEdit"]>>],
            [name |-> <<>>]>>]>>]

\* A top fragment with a name and a field of its own.
RootField ==
    [name |-> <<"R">>,
     properties |-> <<[name |-> "r", field |-> "LineEdit"]>>,
     subwidgets |-> <<
        [name |-> <<"A">>,
         properties |-> <<[name |-> "x", field |-> "LineEdit"]>>],
        [name |-> <<"B">>]>>]

\* Two siblings named "A".
SameName ==
    [name |-> <<"R">>,
     subwidgets |-> <<
        [name |-> <<"A">>,
         properties |-> <<[name |-> "x", field |-> "LineEdit"]>>],
        [name |-> <<"B">>],
        [name |-> <<"A">>,
         subwidgets |-> <<[name |-> <<"C">>], [name |-> <<"D">>]>>]>>]

\* A field kind that is not registered, in a branch that is not the first.
UnknownKind ==
    [name |-> <<"R">>,
     subwidgets |-> <<
        [name |-> <<"A">>],
        [name |-> <<"B">>,
         subwidgets |-> <<
            [name |-> <<"C">>,
             properties |-> <<[name |-> "f", field |-> "FileEdit"]>>]>>]>>]

\* A top fragment without subwidgets.
NoSubwidgets ==
    [name |-> <<"R">>,
     properties |-> <<[name |-> "r", field |-> "LineEdit"]>>]

\* What json.load makes of each file: None for a file that is not JSON.
Files ==
    <<None, Some(DocExample), Some(Nested), Some(RootField), Some(SameName),
      Some(UnknownKind), Some(NoSubwidgets)>>

\* The names update_subwidgets is called with on a node whose _subwidgets
\* is d: its keys and a name that is none of them.
Names(d) == {d[j][1] : j \in DOMAIN d} \cup {DoesNotExist}

-----------------------------------------------------------------------------
(* AdaptiveTreeNode *)

Parent(p) == SubSeq(p, 1, Len(p) - 1)

\* Mutant: the selection is forgotten when no key matches.
SelectedAfter_ClearsOnMiss(d, name, old) ==
    IF DictHas(d, name) THEN Some(DictGet(d, name)) ELSE None

\* Mutant: the first child is selected when no key matches.
SelectedAfter_FirstOnMiss(d, name, old) ==
    IF DictHas(d, name) THEN Some(DictGet(d, name))
    ELSE IF d # <<>> THEN Some(d[1][2]) ELSE old

\* What the loop of update_subwidgets(name), run over the dict d, leaves in
\* self._selected_widget, which held old.
SelectedAfter(d, name, old) ==
    IF DictHas(d, name) THEN Some(DictGet(d, name)) ELSE old

\* What that loop does to the widget w, whose show/hide state was old.
ShowHide(d, name, w, old) ==
    IF \E j \in DOMAIN d : d[j][2] = w
    THEN IF DictHas(d, name) /\ DictGet(d, name) = w THEN "shown" ELSE "hidden"
    ELSE old

\* QComboBox.currentText() after clear() and addItems(keys)
CurrentTextAfterAddItems(keys) == keys[1]

\* The state AdaptiveTreeNode(parent, tree) leaves in every node it built,
\* followed by load_from_file's self._root.show().
BuiltCombo(tree) ==
    [p \in NodePaths(tree) |->
        IF Subwidgets(tree, p) # <<>>
        THEN Some(CurrentTextAfterAddItems(DictKeys(Subwidgets(tree, p))))
        ELSE None]

BuiltSelected(tree) ==
    [p \in NodePaths(tree) |->
        IF Subwidgets(tree, p) # <<>>
        THEN SelectedAfter(Subwidgets(tree, p), BuiltCombo(tree)[p][1], None)
        ELSE None]

BuiltShown(tree) ==
    [p \in NodePaths(tree) |->
        IF p = <<>> THEN "shown"
        ELSE ShowHide(Subwidgets(tree, Parent(p)),
                      BuiltCombo(tree)[Parent(p)][1], p, "default")]

BuiltText(tree) == [id \in FieldIds(tree) |-> <<>>]

\* The node tree AdaptiveTreeNode(parent, tree) constructs from the tree of
\* the file f, for every file it can be constructed from.
Built ==
    [f \in {g \in DOMAIN Files : Files[g] # None /\ BuildError(Files[g][1]) = ""} |->
      LET tree == Files[f][1] IN
        [tree               |-> tree,
         nodes              |-> NodePaths(tree),
         subwidgets         |-> [p \in NodePaths(tree) |-> Subwidgets(tree, p)],
         properties_widgets |-> [p \in NodePaths(tree) |-> PropertiesWidgets(tree, p)],
         selected           |-> BuiltSelected(tree),
         combo              |-> BuiltCombo(tree),
         shown              |-> BuiltShown(tree),
         text               |-> BuiltText(tree)]]

\* Mutant: the values are joined with "," alone.
WithProperties_CommaOnly(name, values) == name \o <<" ">> \o Join(<<",">>, values)

\* result = self._name; result += " " + ", ".join(values)
WithProperties(name, values) == name \o <<" ">> \o Join(<<",", " ">>, values)

\* AdaptiveTreeNode.data() of the node at path p, in the form state
\* s = [root, selected, combo, text].
RECURSIVE NodeData(_, _)
NodeData(s, p) ==
    LET tree  == Built[s.root[1]].tree
        props == Built[s.root[1]].properties_widgets[p]
        subs  == Built[s.root[1]].subwidgets[p]
    IN  IF p # <<>>
        THEN LET own == FragmentAt(tree, p).name
                 withProps ==
                     IF props # <<>>
                     THEN WithProperties(own,
                               [j \in DOMAIN props |->
                                   UserField_data(props[j][2], s.text[<<p, props[j][1]>>])])
                     ELSE own
             IN  IF subs # <<>>
                 THEN IF s.selected[p] = None THEN Raise("AttributeError")
                      ELSE LET sub == NodeData(s, s.selected[p][1])
                           IN  IF sub.exc # "" THEN sub
                               ELSE Return(Some(withProps \o <<" ">> \o sub.val[1]))
                 ELSE Return(Some(withProps))
        ELSE IF s.combo[p] = None THEN Raise("AttributeError")
             ELSE IF ~DictHas(subs, s.combo[p][1]) THEN Raise("KeyError")
             ELSE NodeData(s, DictGet(subs, s.combo[p][1]))

\* Mutant: data() asks the root without looking whether there is one.
FormData_NoRootCheck(s) ==
    IF s.root # None THEN NodeData(s, <<>>) ELSE Raise("AttributeError")

\* AdaptiveTreeForm.data()
FormData(s) ==
    IF s.root # None THEN NodeData(s, <<>>) ELSE Return(None)

Form == [root |-> root, selected |-> selected, combo |-> combo, text |-> text]

output == FormData(Form)

\* The form state after the step.
FormNext == [root |-> root', selected |-> selected', combo |-> combo', text |-> text']

-----------------------------------------------------------------------------
(* Operations *)

Nodes == IF root = None THEN {} ELSE Built[root[1]].nodes

Children(p) == Built[root[1]].subwidgets[p]

TotalChars == LET RECURSIVE Sum(_)
                  Sum(ids) == IF ids = {} THEN 0
                              ELSE LET id == CHOOSE i \in ids : TRUE
                                   IN  Len(text[id]) + Sum(ids \ {id})
              IN  Sum(DOMAIN text)

\* AdaptiveTreeForm.__init__, in a window that has no copy button yet
Init ==
    /\ button = FALSE
    /\ root = None
    /\ selected = <<>>
    /\ combo = <<>>
    /\ shown = <<>>
    /\ text = <<>>
    /\ last_call = [op |-> "__init__", arg |-> <<>>, result |-> Return(None)]

\* Mutant: self._root is dropped before the file is read.
load_from_file_DropsRootFirst(f) ==
    LET error == IF Files[f] = None THEN "JSONDecodeError"
                 ELSE BuildError(Files[f][1])
    IN  IF error # ""
        THEN /\ last_call' = [op |-> "load_from_file", arg |-> <<f>>, result |-> Raise(error)]
             /\ root' = None
             /\ selected' = <<>>
             /\ combo' = <<>>
             /\ shown' = <<>>
             /\ text' = <<>>
        ELSE /\ root' = Some(f)
             /\ selected' = Built[f].selected
             /\ combo' = Built[f].combo
             /\ shown' = Built[f].shown
             /\ text' = Built[f].text
             /\ last_call' = [op |-> "load_from_file", arg |-> <<f>>, result |-> Return(None)]

\* AdaptiveTreeForm.load_from_file(file_name), the file holding Files[f]
load_from_file(f) ==
    LET error == IF Files[f] = None THEN "JSONDecodeError"
                 ELSE BuildError(Files[f][1])
    IN  IF error # ""
        THEN /\ last_call' = [op |-> "load_from_file", arg |-> <<f>>, result |-> Raise(error)]
             /\ UNCHANGED <<root, selected, combo, shown, text>>
        ELSE /\ root' = Some(f)
             /\ selected' = Built[f].selected
             /\ combo' = Built[f].combo
             /\ shown' = Built[f].shown
             /\ text' = Built[f].text
             /\ last_call' = [op |-> "load_from_file", arg |-> <<f>>, result |-> Return(None)]

\* Mutant: the fields of the children that get hidden are emptied.
update_subwidgets_ClearsHidden(p, name) ==
    /\ selected' = [selected EXCEPT ![p] = SelectedAfter(Children(p), name, @)]
    /\ shown' = [w \in DOMAIN shown |-> ShowHide(Children(p), name, w, shown[w])]
    /\ text' = [id \in DOMAIN text |->
                   IF /\ \E j \in DOMAIN Children(p) : Children(p)[j][2] = id[1]
                      /\ ShowHide(Children(p), name, id[1], shown[id[1]]) = "hidden"
                   THEN <<>> ELSE text[id]]
    /\ UNCHANGED root

\* Mutant: the children of p go back to the selection they were built with.
update_subwidgets_ResetsNested(p, name) ==
    /\ selected' = [q \in DOMAIN selected |->
                       IF q = p THEN SelectedAfter(Children(p), name, selected[p])
                       ELSE IF q # <<>> /\ Parent(q) = p
                            THEN Built[root[1]].selected[q]
                            ELSE selected[q]]
    /\ shown' = [w \in DOMAIN shown |-> ShowHide(Children(p), name, w, shown[w])]
    /\ UNCHANGED <<root, text>>

\* AdaptiveTreeNode.update_subwidgets(name) on the node p
update_subwidgets(p, name) ==
    /\ selected' = [selected EXCEPT ![p] = SelectedAfter(Children(p), name, @)]
    /\ shown' = [w \in DOMAIN shown |-> ShowHide(Children(p), name, w, shown[w])]
    /\ UNCHANGED <<root, text>>

\* A direct call of update_subwidgets, on a node that has children (on a
\* node without children the loop has nothing to run over).
CallUpdateSubwidgets(p, name) ==
    /\ p \in Nodes
    /\ Children(p) # <<>>
    /\ update_subwidgets(p, name)
    /\ last_call' = [op |-> "update_subwidgets", arg |-> <<p, name>>,
                      result |-> Return(None)]
    /\ UNCHANGED combo

\* The user picks another item of the node's combo box: the box takes the new
\* text and currentTextChanged runs on_selection_changed(text).
on_selection_changed(p, name) ==
    /\ p \in Nodes
    /\ combo[p] # None
    /\ DictHas(Children(p), name)
    /\ name # combo[p][1]
    /\ combo' = [combo EXCEPT ![p] = Some(name)]
    /\ update_subwidgets(p, name)
    /\ last_call' = [op |-> "on_selection_changed", arg |-> <<p, name>>,
                      result |-> Return(None)]

\* The user types the character c at the end of a field.
TypeChar(id, c) ==
    /\ id \in DOMAIN text
    /\ TotalChars < MaxChars
    /\ text' = [text EXCEPT ![id] = Append(@, c)]
    /\ last_call' = [op |-> "edit", arg |-> <<>>, result |-> Return(None)]
    /\ UNCHANGED <<root, selected, combo, shown>>

\* The user deletes the last character of a field.
Backspace(id) ==
    /\ id \in DOMAIN text
    /\ text[id] # <<>>
    /\ text' = [text EXCEPT ![id] = SubSeq(@, 1, Len(@) - 1)]
    /\ last_call' = [op |-> "edit", arg |-> <<>>, result |-> Return(None)]
    /\ UNCHANGED <<root, selected, combo, shown>>

\* Mutant: data() empties the fields it has read.
data_ClearsText ==
    /\ last_call' = [op |-> "data", arg |-> <<>>, result |-> output]
    /\ text' = [id \in DOMAIN text |-> <<>>]
    /\ UNCHANGED <<root, selected, combo, shown>>

\* AdaptiveTreeForm.data()
data ==
    /\ last_call' = [op |-> "data", arg |-> <<>>, result |-> output]
    /\ UNCHANGED <<root, selected, combo, shown, text>>

\* MainWindow.on_open_model, the user choosing the file holding Files[f]:
\* a new form takes the place of self.adaptive_form before the file is
\* loaded, and the copy button is made after the load.
on_open_model(f) ==
    LET error == IF Files[f] = None THEN "JSONDecodeError"
                 ELSE BuildError(Files[f][1])
    IN  IF error # ""
        THEN /\ root' = None
             /\ selected' = <<>>
             /\ combo' = <<>>
             /\ shown' = <<>>
             /\ text' = <<>>
             /\ button' = button
             /\ last_call' = [op |-> "on_open_model", arg |-> <<f>>, result |-> Raise(error)]
        ELSE /\ root' = Some(f)
             /\ selected' = Built[f].selected
             /\ combo' = Built[f].combo
             /\ shown' = Built[f].shown
             /\ text' = Built[f].text
             /\ button' = TRUE
             /\ last_call' = [op |-> "on_open_model", arg |-> <<f>>, result |-> Return(None)]

\* The copy button is clicked:
\* QApplication.clipboard().setText(self.adaptive_form.data()).  arg is the
\* text the clipboard takes.  With data() returning None, setText either
\* refuses the argument or takes it for the empty string.
copy ==
    /\ button
    /\ \/ /\ output.exc # ""
          /\ last_call' = [op |-> "copy", arg |-> None, result |-> output]
       \/ /\ output.exc = "" /\ output.val # None
          /\ last_call' = [op |-> "copy", arg |-> output.val, result |-> Return(None)]
       \/ /\ output.exc = "" /\ output.val = None
          /\ \/ last_call' = [op |-> "copy", arg |-> None, result |-> Raise("TypeError")]
             \/ last_call' = [op |-> "copy", arg |-> Some(<<>>), result |-> Return(None)]
    /\ UNCHANGED <<root, selected, combo, shown, text, button>>

Next ==
    \/ \E f \in DOMAIN Files : load_from_file(f) /\ UNCHANGED button
    \/ \E p \in Nodes : \E name \in Names(Children(p)) :
          CallUpdateSubwidgets(p, name) /\ UNCHANGED button
    \/ \E p \in Nodes : \E name \in Names(Children(p)) :
          on_selection_changed(p, name) /\ UNCHANGED button
    \/ \E id \in DOMAIN text, c \in RawChars : TypeChar(id, c) /\ UNCHANGED button
    \/ \E id \in DOMAIN text : Backspace(id) /\ UNCHANGED button
    \/ data /\ UNCHANGED button
    \/ \E f \in DOMAIN Files : on_open_model(f)
    \/ copy

Spec == Init /\ [][Next]_vars

-----------------------------------------------------------------------------
(* Properties *)

\* A call of update_subwidgets(name) on p with a name that is no key of
\* p's _subwidgets.
UnknownNameCall ==
    /\ last_call'.op = "update_subwidgets"
    /\ ~DictHas(Children(last_call'.arg[1]), last_call'.arg[2])

\* Some node with children has every child hidden.
AllChildrenHidden ==
    \E p \in Nodes :
        /\ Children(p) # <<>>
        /\ \A j \in DOMAIN Children(p) : shown[Children(p)[j][2]] = "hidden"

\* C1: in every reachable state every node with a non-empty _subwidgets has
\* exactly one selected widget, and it is one of the values of its _subwidgets.
C1_ExactlyOneActiveChild ==
    \A p \in Nodes :
        Children(p) # <<>> =>
            Cardinality({j \in DOMAIN Children(p) :
                            selected[p] = Some(Children(p)[j][2])}) = 1

\* C1 witness: a tree in which a selection was changed, a name that matches
\* no child was used, and a field was edited.
C1_Witness ==
    /\ root # None
    /\ selected # Built[root[1]].selected
    /\ AllChildrenHidden
    /\ TotalChars > 0

\* C2 (as claimed): update_subwidgets(name) with a name that is no key of the
\* node's children ends in an error.
C2_UnknownChildFails ==
    [][UnknownNameCall => last_call'.result.exc # ""]_vars

\* C3: update_subwidgets(name) with a name that is no key of the node's
\* children leaves the selected widget of every node, every field text, the
\* tree and the result of data() as they were.
C3_UnknownNameKeepsState ==
    [][UnknownNameCall =>
          /\ selected' = selected
          /\ text' = text
          /\ root' = root
          /\ FormData(FormNext) = output]_vars

\* C3 witness: update_subwidgets has just returned and a node has all its
\* children hidden, which only a name matching no child brings about, while
\* data() has something to return.
C3_Witness ==
    /\ last_call.op = "update_subwidgets"
    /\ AllChildrenHidden
    /\ TotalChars > 0
    /\ output.exc = ""

\* v occurs in s
Contains(s, v) ==
    \E i \in 0..(Len(s) - Len(v)) : SubSeq(s, i + 1, i + Len(v)) = v

\* The node a and the nodes below it that a.data() reads, under the selection sel.
RECURSIVE ActiveChain(_, _)
ActiveChain(sel, a) ==
    {a} \cup (IF sel[a] = None THEN {} ELSE ActiveChain(sel, sel[a][1]))

\* The values of the fields of node q under the texts txt, in the order of
\* its _properties_widgets.
FieldValues(txt, q) ==
    LET props == Built[root[1]].properties_widgets[q]
    IN  [j \in DOMAIN props |-> UserField_data(props[j][2], txt[<<q, props[j][1]>>])]

C5_NodeAggregation ==
    \A p \in Nodes \ {<<>>} :
        LET name   == FragmentAt(Built[root[1]].tree, p).name
            fields == IF FieldValues(text, p) # <<>>
                      THEN <<" ">> \o Join(<<",", " ">>, FieldValues(text, p))
                      ELSE <<>>
            child  == IF Children(p) # <<>>
                      THEN IF selected[p] = None THEN None
                           ELSE Some(<<" ">> \o NodeData(Form, selected[p][1]).val[1])
                      ELSE Some(<<>>)
        IN  /\ child # None
            /\ NodeData(Form, p) = Return(Some(name \o fields \o child[1]))

\* C5 witness: a node with two non-empty fields whose selected widget has the
\* empty name, so that its data() ends with the separator.
C5_Witness ==
    \E p \in Nodes \ {<<>>} :
        /\ Len(FieldValues(text, p)) = 2
        /\ \A j \in 1..2 : FieldValues(text, p)[j] # <<>>
        /\ selected[p] # None
        /\ FragmentAt(Built[root[1]].tree, selected[p][1]).name = <<>>
        /\ NodeData(Form, p) =
              Return(Some(Issue \o <<" ">> \o FieldValues(text, p)[1] \o <<",", " ">>
                          \o FieldValues(text, p)[2] \o <<" ">>))

\* C6 (as claimed): for a loaded tree whose root has children, data() of the
\* form is data() of the root's selected widget.
C6_OutputIsActiveChildData ==
    (root # None /\ Children(<<>>) # <<>>) =>
        /\ selected[<<>>] # None
        /\ output = NodeData(Form, selected[<<>>][1])

\* C7: a load_from_file that ends in an exception leaves the root, every
\* selection, combo box and field text, and the result of data() as they were.
C7_FailedLoadKeepsSession ==
    [][(last_call'.op = "load_from_file" /\ last_call'.result.exc # "") =>
          /\ root' = root
          /\ selected' = selected
          /\ combo' = combo
          /\ text' = text
          /\ FormData(FormNext) = output]_vars

\* C7 witness: a file that is not JSON was just refused while a tree with a
\* typed field is loaded, and data() still returns a string.
C7_Witness ==
    /\ last_call.op = "load_from_file"
    /\ last_call.result.exc = "JSONDecodeError"
    /\ root # None
    /\ TotalChars > 0
    /\ output.exc = "" /\ output.val # None

\* Some property of the tree, at any depth, has a field kind that is not a key
\* of SUPPORTED_USER_FIELD_TYPES.
RECURSIVE HasUnknownKind(_)
HasUnknownKind(tree) ==
    \/ \E i \in DOMAIN Items(tree, "properties") :
          tree.properties[i].field \notin {"LineEdit", "MultipleTextEdit", "MultipleFilesEdit"}
    \/ \E i \in DOMAIN Items(tree, "subwidgets") : HasUnknownKind(tree.subwidgets[i])

\* C8: load_from_file of a tree with a property, at any depth, whose field kind
\* is not registered ends in an exception and installs nothing; the tree of a
\* loaded root has no such property.
C8_UnknownKindFails ==
    [][last_call'.op = "load_from_file" =>
          /\ (Files[last_call'.arg[1]] # None /\ HasUnknownKind(Files[last_call'.arg[1]][1]))
                => (last_call'.result.exc # "" /\ root' = root)
          /\ last_call'.result.exc = "" => ~HasUnknownKind(Files[root'[1]][1])]_vars

\* C8 witness: the file whose only defect is an unknown kind in the second
\* branch, two levels down, was just refused with a KeyError, a tree being loaded.
C8_Witness ==
    /\ last_call.op = "load_from_file"
    /\ Files[last_call.arg[1]] = Some(UnknownKind)
    /\ last_call.result = Raise("KeyError")
    /\ root # None
    /\ root # Some(last_call.arg[1])

\* C9 (as claimed): a tree whose top fragment has "subwidgets" but no "name"
\* loads, the name of the root defaulting to the empty string.
C9_MissingNameLoads ==
    (/\ last_call.op = "load_from_file"
     /\ Files[last_call.arg[1]] # None
     /\ "name" \notin DOMAIN Files[last_call.arg[1]][1])
        => (last_call.result.exc = "" /\ root = Some(last_call.arg[1]))

\* C10 (as claimed): right after a load, the selected widget of every node with
\* children is the node built from the first item of its "subwidgets".
C10_FirstItemActive ==
    (last_call.op = "load_from_file" /\ last_call.result.exc = "") =>
        \A p \in Nodes :
            Children(p) # <<>> => selected[p] = Some(p \o <<1>>)

\* C11 (as claimed): the _subwidgets of every node of a loaded tree has one
\* entry per item of the fragment's "subwidgets", in the order of the items,
\* the i-th entry holding the node built from the i-th item under its name.
C11_OneChildPerItem ==
    \A p \in Nodes :
        LET items == Items(FragmentAt(Built[root[1]].tree, p), "subwidgets")
        IN  /\ Len(Children(p)) = Len(items)
            /\ \A i \in DOMAIN items :
                  i \in DOMAIN Children(p) => Children(p)[i] = <<items[i].name, p \o <<i>>>>

\* C12: on a form whose _root is None (no load has succeeded) data() returns
\* None and raises nothing.
C12_NoTreeNoData ==
    root = None =>
        /\ output = Return(None)
        /\ last_call.op = "data" => last_call.result = Return(None)

\* C12 witness: data() has just returned None on a form without a root.
C12_Witness ==
    /\ root = None
    /\ last_call.op = "data"
    /\ last_call.result = Return(None)

\* C13: a call of data() changes no selection, combo box, show/hide state,
\* field text or root, and what it returns is what data() returned in the
\* state before it and returns in the state after it.
C13_DataIsPureRead ==
    [][last_call'.op = "data" =>
          /\ root' = root
          /\ selected' = selected
          /\ combo' = combo
          /\ shown' = shown
          /\ text' = text
          /\ last_call'.result = output
          /\ FormData(FormNext) = last_call'.result]_vars

\* C13 witness: data() has just returned a string that is built from a typed
\* field, after a selection was changed.
C13_Witness ==
    /\ last_call.op = "data"
    /\ last_call.result.exc = ""
    /\ last_call.result.val # None
    /\ TotalChars > 0
    /\ selected # Built[root[1]].selected
    /\ last_call.result = output

\* C14 (as claimed): a step that keeps the tree and, at every node of the
\* chain of selected widgets from the root, keeps the selected widget, the
\* combo box and the text of every field, whatever it changes elsewhere,
\* leaves the result of the form's data() as it was.
C14_InactiveSubtreesDoNotParticipate ==
    [][(/\ root # None
        /\ root' = root
        /\ \A p \in ActiveChain(selected, <<>>) :
              /\ selected'[p] = selected[p]
              /\ combo'[p] = combo[p]
              /\ \A id \in DOMAIN text : id[1] = p => text'[id] = text[id])
       => FormData(FormNext) = output]_vars

\* C15: between two loads the selected widget of a node changes only in a
\* call of update_subwidgets on that node (direct, or through its combo box):
\* edits, data() and selections at other nodes, the node's ancestors
\* included, leave it as it was.
C15_SelectionChangesOnlyAtItsNode ==
    [][last_call'.op \notin {"load_from_file", "on_open_model"} =>
          \A p \in Nodes :
              selected'[p] # selected[p] =>
                  /\ last_call'.op \in {"update_subwidgets", "on_selection_changed"}
                  /\ last_call'.arg[1] = p]_vars

\* C15 witness: the root's combo box has just moved the root's selection away
\* from a child that is hidden now and whose own selection is still the one
\* made in it, not the one it was built with.
C15_Witness ==
    /\ root # None
    /\ last_call.op = "on_selection_changed"
    /\ last_call.arg[1] = <<>>
    /\ \E q \in Nodes :
          /\ Len(q) = 1
          /\ shown[q] = "hidden"
          /\ selected[<<>>] # Some(q)
          /\ selected[q] # None
          /\ selected[q] # Built[root[1]].selected[q]

\* C16 (as claimed): at every node with children the child that is shown is
\* the selected widget and every other child is hidden.
C16_ShownIsSelected ==
    \A p \in Nodes :
        \A j \in DOMAIN Children(p) :
            shown[Children(p)[j][2]] =
                IF selected[p] = Some(Children(p)[j][2]) THEN "shown" ELSE "hidden"

\* raw with every newline replaced by a comma and a space
RECURSIVE CommaForNewline(_)
CommaForNewline(raw) ==
    IF raw = <<>> THEN <<>>
    ELSE (IF Head(raw) = "\n" THEN <<",", " ">> ELSE <<Head(raw)>>)
             \o CommaForNewline(Tail(raw))

\* The number of occurrences of the character c in s
Count(s, c) == Cardinality({i \in DOMAIN s : s[i] = c})

\* C17: the value of every field of class MultipleTextEdit is its text with
\* each newline replaced by ", ", so that a text of n lines, empty ones
\* included, gives n segments; data() of the node that owns the field starts
\* with the node's name, a space and the values of its fields joined with
\* ", ", this value among them as it is; the lines "Foo" and "Bar" in the
\* field of a node named "In class" give "In class Foo, Bar".
C17_MultiLineValue ==
    /\ WithProperties(InClass,
           <<MultipleTextEdit_data(<<"F", "o", "o", "\n", "B", "a", "r">>)>>)
         = InClass \o <<" ", "F", "o", "o", ",", " ", "B", "a", "r">>
    /\ \A p \in Nodes \ {<<>>} :
          LET props == Built[root[1]].properties_widgets[p]
              start == FragmentAt(Built[root[1]].tree, p).name \o <<" ">>
                           \o Join(<<",", " ">>, FieldValues(text, p))
          IN  \A j \in DOMAIN props :
                  props[j][2] = "MultipleTextEdit" =>
                      LET raw   == text[<<p, props[j][1]>>]
                          value == FieldValues(text, p)[j]
                      IN  /\ value = CommaForNewline(raw)
                          /\ Count(value, ",") + 1 = Count(raw, "\n") + 1
                          /\ Len(Split(raw, "\n")) = Count(raw, "\n") + 1
                          /\ NodeData(Form, p).exc = ""
                          /\ SubSeq(NodeData(Form, p).val[1], 1, Len(start)) = start
                          /\ Contains(start, value)

\* C17 witness: data() has just returned a string that holds the value of a
\* multi-line field whose first line is empty.
C17_Witness ==
    /\ last_call.op = "data"
    /\ last_call.result.exc = ""
    /\ last_call.result.val # None
    /\ \E id \in DOMAIN text :
          /\ text[id] = <<"\n", "4">>
          /\ id[1] # <<>>
          /\ \E j \in DOMAIN Built[root[1]].properties_widgets[id[1]] :
                Built[root[1]].properties_widgets[id[1]][j] = <<id[2], "MultipleTextEdit">>
          /\ Contains(last_call.result.val[1], <<",", " ", "4">>)

\* C18 (as claimed): when the "Open model" action fails after an earlier one
\* succeeded, the form the copy button reads keeps its root, and data() of
\* that form, which the button hands to the clipboard, is what it was.
C18_FailedOpenKeepsSession ==
    [][(/\ last_call'.op = "on_open_model"
        /\ last_call'.result.exc # ""
        /\ button)
       => /\ root' = root
          /\ FormData(FormNext) = output]_vars

\* C19 (as claimed): at every node with children the selected widget is the
\* child that _subwidgets holds under the current text of the combo box.
C19_SelectedIsComboChild ==
    \A p \in Nodes :
        Children(p) # <<>> =>
            /\ combo[p] # None
            /\ DictHas(Children(p), combo[p][1])
            /\ selected[p] = Some(DictGet(Children(p), combo[p][1]))

\* C20 (as claimed): whenever a tree is loaded, data() of the form returns a
\* string and raises nothing.
C20_LoadedFormHasData ==
    root # None => (output.exc = "" /\ output.val # None)

====
